---- MODULE Spec2Model ----
(***************************************************************************)
(* State-machine model of the rpki_agent Supervisor (agent.py), its fetch  *)
(* Worker (worker.py) and its HTTP Listener (listener.py).                 *)
(*                                                                         *)
(* The Supervisor is single-threaded: every host callback (on_initialized, *)
(* on_timeout, on_readable, on_agent_option, on_agent_enabled) is one      *)
(* atomic action.  success() is cut in two at the point where it talks to  *)
(* the Listener process (signal, then send), because the Listener runs     *)
(* concurrently.  Children are separate processes with their own actions.  *)
(***************************************************************************)
EXTENDS Integers, Sequences, FiniteSets, TLC

\* ---------------------------------------------------------------- bounds
MaxListeners == 2      \* Listener objects (process + pipes) in existence at once
MaxWorkers == 2        \* Worker objects in existence at once
MaxQueue == 2          \* collections waiting in a Listener's inbound pipe
MaxRoas == 2           \* records in the "roas" array of one cache response

\* ------------------------------------------------------- program constants
DefaultRefresh == 10   \* agent.py:75, agent.py:104
RangeLo == 10          \* agent.py:105  range(10, 86400)
RangeHi == 86400       \* agent.py:105  (exclusive)
Polls == 3             \* listener.py:89  range(3)

\* ------------------------------------------------------------ Python values
\* A host option value is a str; None is a value of its own.
None == [t |-> "none", s |-> <<>>]
Str(cs) == [t |-> "str", s |-> cs]

Digits == {"0", "1", "2", "3", "4", "5", "6", "7", "8", "9"}
DigitVal(c) == CASE c = "0" -> 0 [] c = "1" -> 1 [] c = "2" -> 2 [] c = "3" -> 3
                 [] c = "4" -> 4 [] c = "5" -> 5 [] c = "6" -> 6 [] c = "7" -> 7
                 [] c = "8" -> 8 [] c = "9" -> 9

\* bool(v): None and "" are falsy, every other str is truthy
Truthy(v) == v.t = "str" /\ Len(v.s) > 0

\* int(str): decimal parse; -1 stands for ValueError (no sign is ever parsed)
RECURSIVE ParseDigits(_, _)
ParseDigits(cs, acc) ==
    IF cs = <<>> THEN acc
    ELSE IF Head(cs) \notin Digits THEN -1
    ELSE ParseDigits(Tail(cs), acc * 10 + DigitVal(Head(cs)))

PyInt(v) == IF Len(v.s) = 0 THEN -1 ELSE ParseDigits(v.s, 0)

\* values the host delivers for the two known options ("" = option removed)
UrlValues == {Str(<<>>), Str(<<"u">>)}
IntervalValues == {Str(<<>>), Str(<<"9">>), Str(<<"1", "0">>), Str(<<"0">>),
                   Str(<<"8", "6", "3", "9", "9">>), Str(<<"8", "6", "4", "0", "0">>),
                   Str(<<"x">>)}
\* the two interval values the process-lifecycle specification uses: one that
\* configure() accepts and one that it rejects
FewIntervalValues == {Str(<<>>), Str(<<"9">>)}
Keys == {"cache_url", "refresh_interval"}

VARIABLES
    status, result, last_start, last_end,   \* agent state mirrored to the host
    cache_url, refresh_interval,            \* configuration
    worker, listener,                       \* current child objects (0 = None / unset)
    watching,                               \* watched connections <<proc, end>>
    timer,                                  \* one-shot refresh timer armed
    procs,                                  \* the child objects in existence
    options,                                \* the host's option store
    pc, drained,                            \* position inside success()
    ev,                                     \* last callback / step and what it published
    roas, fetched,                          \* a cache response and the VRPSet fetch() built
    held, origins, covered, for_origin,     \* RpkiHttpServer: vrps and the served view
    server,                                 \* RpkiHttpServer process: "up" or "exited"
    reply                                   \* the answer to the last HTTP request

agentvars == <<status, result, last_start, last_end, cache_url, refresh_interval,
               worker, listener, watching, timer, procs, options, pc, drained, ev>>
viewvars == <<roas, fetched, held, origins, covered, for_origin, server, reply>>
vars == <<agentvars, viewvars>>

\* identities of child objects: Listeners first, Workers after them
ListenerIds == 1..MaxListeners
WorkerIds == (MaxListeners + 1)..(MaxListeners + MaxWorkers)
ProcIds == ListenerIds \cup WorkerIds

\* A child object: a multiprocessing.Process plus its pipes.
\*   ps        process state: new (not started), run, exit (zombie), reaped
\*   open_data parent's p_data endpoint open    open_err  parent's p_err open
\*   data      worker: messages on the data pipe; listener: inbound pipe
\*   err       messages on the error pipe
\*   vrps/view listener: held collection and the collection the view was built from
\*   hup       listener: reload signals queued    poll: next poll of get_vrps (0 idle)
\*   sent_data, sent_err   messages the running process has written (history)
\*   sent, last            listener: collections the Supervisor has put on the
\*                         inbound pipe, and the latest of them (history)
NoProc == [kind |-> "none", ps |-> "none", open_data |-> FALSE, open_err |-> FALSE,
           data |-> <<>>, err |-> 0, sent_data |-> 0, sent_err |-> 0,
           vrps |-> 0, view |-> 0, hup |-> 0, poll |-> 0,
           phase |-> "none", sent |-> {}, last |-> 0]

NoFd == <<0, "none">>
NoEv == [op |-> "none", fd |-> NoFd, exc |-> "none", pub |-> <<>>, route |-> "none"]

\* ------------------------------------------------- the Supervisor's own state
\* The Supervisor's fields as one record, threaded through the methods below the
\* way `self` is threaded through the Python methods.  exc is the exception in
\* flight ("none" when there is none); pub is what the handler has published on
\* the host status surface so far (agent_mgr.status_set and friends); over is
\* set when a step would exceed MaxListeners, MaxWorkers or MaxQueue; local is the collection success()
\* holds in its local variable between draining it and sending it.
Cur == [status |-> status, result |-> result, last_start |-> last_start,
        last_end |-> last_end, cache_url |-> cache_url,
        refresh_interval |-> refresh_interval, worker |-> worker,
        listener |-> listener, watching |-> watching, timer |-> timer,
        procs |-> procs,
        local |-> drained, exc |-> "none", pub |-> <<>>, over |-> FALSE]

Raise(s, e) == [s EXCEPT !.exc = e]
ClearExc(s) == [s EXCEPT !.exc = "none"]
Publish(s, k, v) == [s EXCEPT !.pub = Append(@, <<k, v>>)]

\* datetime.datetime.now(): some timestamp
Now == "ts"

SetStatus(s, v) == Publish([s EXCEPT !.status = v], "status", v)
SetResult(s, v) == Publish([s EXCEPT !.result = v], "result", v)
SetLastStart(s) == Publish([s EXCEPT !.last_start = Now], "last_start", Now)
SetLastEnd(s) == Publish([s EXCEPT !.last_end = Now], "last_end", Now)

\* ------------------------------------------------------------ configuration
\* the range with its upper end included
InRange_Inclusive(i) == i >= RangeLo /\ i <= RangeHi

InRange(i) == i >= RangeLo /\ i < RangeHi

\* refresh_interval.setter
SetRefreshInterval(s, v) ==
    IF Truthy(v) /\ PyInt(v) = -1 THEN Raise(s, "ValueError")
    ELSE LET i == IF Truthy(v) THEN PyInt(v) ELSE DefaultRefresh
         IN  IF InRange(i) THEN [s EXCEPT !.refresh_interval = i]
             ELSE Raise(s, "ValueError")

\* cache_url.setter
SetCacheUrl(s, v) == [s EXCEPT !.cache_url = v]

\* set(key, value)
Set(s, key, value) ==
    LET v == IF Truthy(value) THEN value ELSE None
    IN  IF key = "cache_url" THEN SetCacheUrl(s, v)
        ELSE IF key = "refresh_interval" THEN SetRefreshInterval(s, v)
        ELSE s

\* agent_option_iter(): the keys the host has a value for, in some order
Configured(opts) == {k \in Keys : Len(opts[k].s) > 0}
Orders(opts) == {o \in UNION {[1..n -> Keys] : n \in 0..Cardinality(Keys)} :
                    /\ Len(o) = Cardinality(Configured(opts))
                    /\ {o[i] : i \in 1..Len(o)} = Configured(opts)}

\* configure(): the first exception ends the loop
RECURSIVE Configure(_, _, _)
Configure(s, opts, order) ==
    IF order = <<>> \/ s.exc # "none" THEN s
    ELSE Configure(Set(s, Head(order), opts[Head(order)]), opts, Tail(order))

\* ------------------------------------------------------------ child objects
\* RpkiWorker.__init__: two pipes, parent ends p_data / p_err
NewWorker == [NoProc EXCEPT !.kind = "worker", !.ps = "new",
                            !.open_data = TRUE, !.open_err = TRUE]

\* RpkiListener.__init__: p_err is the parent's read end, p_data its write end
NewListener == [NoProc EXCEPT !.kind = "listener", !.ps = "new",
                              !.open_data = TRUE, !.open_err = TRUE]

\* A child object exists while the Supervisor refers to it (self.worker,
\* self.listener), while one of its connections is in the watched set, or
\* while its process runs; after that nothing can observe it and its slot is
\* free again.  Rebinding self.worker / self.listener drops the old object.
InUse(s, p) ==
    \/ p = s.worker \/ p = s.listener
    \/ s.procs[p].ps = "run"
    \/ \E c \in s.watching : c[1] = p

Collect(s) == [s EXCEPT !.procs = [i \in ProcIds |->
                                     IF InUse(s, i) THEN s.procs[i] ELSE NoProc]]

FreeSlots(s, ids) == {i \in ids : ~InUse(s, i)}
NewId(s, ids) == CHOOSE i \in FreeSlots(s, ids) : \A j \in FreeSlots(s, ids) : i <= j

\* multiprocessing.Process.start() first reaps every child that has exited
\* A process that has exited: what it held in memory is gone (a Listener's
\* collection, view, queued signals and loop position), and nothing will read
\* its inbound pipe any more.
Exited(P) == [P EXCEPT !.ps = "exit", !.vrps = 0, !.view = 0, !.hup = 0, !.poll = 0,
                       !.phase = "none",
                       !.data = IF P.kind = "listener" THEN <<>> ELSE @,
                       !.sent = {}, !.last = 0]
Reaped(P) == [Exited(P) EXCEPT !.ps = "reaped", !.sent_data = 0, !.sent_err = 0]
ReapExited(ps) == [i \in ProcIds |-> IF ps[i].ps = "exit" THEN Reaped(ps[i]) ELSE ps[i]]

\* Process.start(): the child begins to run.  A Listener begins inside
\* RpkiHttpServer.__init__, whose base-class constructor calls load_config():
\* the first get_vrps() poll is pending.
StartProc(s, id) ==
    LET isL == s.procs[id].kind = "listener"
    IN  [s EXCEPT !.procs = [ReapExited(@) EXCEPT
                               ![id].ps = "run",
                               ![id].phase = IF isL THEN "boot" ELSE "none",
                               ![id].poll = IF isL THEN 1 ELSE 0]]

\* watch(conn, type)
Watch(s, conn) == [s EXCEPT !.watching = @ \cup {conn}]

\* unwatch(conn, close=True)
Unwatch(s, conn) ==
    [s EXCEPT !.watching = @ \ {conn},
              !.procs[conn[1]].open_data = IF conn[2] = "p_data" THEN FALSE ELSE @,
              !.procs[conn[1]].open_err = IF conn[2] = "p_err" THEN FALSE ELSE @]

\* the connections cleanup() finds among the child's attributes: the parent
\* ends that are in the watched set
WatchedOf(s, p) == {c \in s.watching : c[1] = p}

RECURSIVE UnwatchAll(_, _)
UnwatchAll(s, conns) ==
    IF conns = {} THEN s
    ELSE LET c == CHOOSE x \in conns : TRUE
         IN  UnwatchAll(Unwatch(s, c), conns \ {c})

\* cleanup() builds [getattr(process, k) for k in dir(process)] before it
\* unwatches anything.  That evaluates the properties `data` (Worker only) and
\* `error`: each polls its pipe and receives what is there, and raises on a
\* closed pipe.  A received (stats, vrps) tuple holds a dict, so testing it for
\* membership of the watched set raises TypeError.  Either exception is caught
\* and logged, and no connection is unwatched.
AttrScanFails(P) ==
    \/ P.kind = "worker" /\ (~P.open_data \/ P.data # <<>>)
    \/ ~P.open_err

AttrScanDrain(P) ==
    IF P.kind = "worker" /\ ~P.open_data THEN P
    ELSE LET P1 == IF P.kind = "worker" THEN [P EXCEPT !.data = <<>>] ELSE P
         IN  IF P1.open_err THEN [P1 EXCEPT !.err = 0] ELSE P1

\* process.is_alive() / terminate() / join(): a running child gets SIGTERM and
\* is waited for; an exited one is reaped by the poll inside is_alive()
Terminate(P) == IF P.ps \in {"run", "exit"} THEN Reaped(P) ELSE P

\* cleanup(process)
Cleanup(s, p) ==
    LET s1 == SetStatus(s, "cleanup")
    IN  IF p = 0 THEN s1
        ELSE LET fails == AttrScanFails(s1.procs[p])
                 s2 == [s1 EXCEPT !.procs[p] = AttrScanDrain(@)]
                 s3 == IF fails THEN s2 ELSE UnwatchAll(s2, WatchedOf(s2, p))
             IN  [s3 EXCEPT !.procs[p] = Terminate(@)]

\* the try block shared by shutdown() and restart(): clean up the Worker, then
\* the Listener; reading self.listener before init() has ever assigned it
\* raises, which the try block swallows
CleanupBoth(s) ==
    LET s1 == Cleanup(s, s.worker)
    IN  IF s1.listener = 0 THEN s1 ELSE Cleanup(s1, s1.listener)

\* sleep()
Sleep(s) == [SetStatus(s, "sleeping") EXCEPT !.timer = TRUE]

\* process.error, as read by failure(): poll and receive; any exception while
\* doing so (process is None, pipe closed) is caught and becomes the error
ReadError(s, p) ==
    IF p = 0 THEN s
    ELSE IF s.procs[p].open_err THEN [s EXCEPT !.procs[p].err = 0]
    ELSE s

\* ---------------------------------------------------------------- spawning
\* Inputs of a handler that the environment decides: the order in which the
\* host iterates its options, and where (if anywhere) creating a child throws.
\* and what a reload signal does to a Listener that has not yet installed a
\* handler for it (default disposition: the process dies; inherited "ignore":
\* nothing).
SpawnFaults == {"none", "ctor", "watch", "watch2", "start"}
HupOutcomes == {"kill", "ignore"}
NoInput(opts) == [opts |-> opts, order |-> <<>>, lfault |-> "none", wfault |-> "none",
                  sig |-> "ignore"]
RunInputs(opts) == {[NoInput(opts) EXCEPT !.wfault = wf] : wf \in SpawnFaults}
StartInputs(opts) == {[in EXCEPT !.order = o, !.lfault = lf] :
                         in \in RunInputs(opts), o \in Orders(opts),
                         lf \in SpawnFaults \ {"watch2"}}
SignalInputs(opts) == {[NoInput(opts) EXCEPT !.sig = x] : x \in HupOutcomes}

\* init(): create, watch and start the Listener; any exception is re-raised
InitListener(s, fault) ==
    IF fault = "ctor" THEN Raise(s, "Exception")
    ELSE IF FreeSlots(s, ListenerIds) = {} THEN [s EXCEPT !.over = TRUE]
    ELSE LET id == NewId(s, ListenerIds)
             s1 == [s EXCEPT !.listener = id, !.procs[id] = NewListener]
         IN  IF fault = "watch" THEN Raise(s1, "Exception")
             ELSE LET s2 == Watch(s1, <<id, "p_err">>)
                  IN  IF fault = "start" THEN Raise(s2, "Exception")
                      ELSE StartProc(s2, id)

\* the try block of run(): create, watch and start the Worker
SpawnWorker(s, fault) ==
    IF fault = "ctor" THEN Raise(s, "Exception")
    ELSE IF FreeSlots(s, WorkerIds) = {} THEN [s EXCEPT !.over = TRUE]
    ELSE LET id == NewId(s, WorkerIds)
             s1 == [s EXCEPT !.worker = id, !.procs[id] = NewWorker]
         IN  IF fault = "watch" THEN Raise(s1, "Exception")
             ELSE IF fault = "watch2" THEN Raise(Watch(s1, <<id, "p_data">>), "Exception")
             ELSE LET s2 == Watch(Watch(s1, <<id, "p_data">>), <<id, "p_err">>)
                  IN  IF fault = "start" THEN Raise(s2, "Exception")
                      ELSE StartProc(s2, id)

\* ------------------------------------------------------- the state machine
RECURSIVE Failure(_, _, _, _, _)

\* run() that returns without sleep() when cache_url is None
Run_NoSleep(s, in) ==
    LET s1 == SetStatus(s, "running")
    IN  IF s1.cache_url # None
        THEN LET s2 == SpawnWorker(SetLastStart(s1), in.wfault)
             IN  IF s2.exc # "none" THEN Failure(ClearExc(s2), TRUE, 0, FALSE, in)
                 ELSE s2
        ELSE s1

\* run()
Run(s, in) ==
    LET s1 == SetStatus(s, "running")
    IN  IF s1.cache_url # None
        THEN LET s2 == SpawnWorker(SetLastStart(s1), in.wfault)
             IN  IF s2.exc # "none" THEN Failure(ClearExc(s2), TRUE, 0, FALSE, in)
                 ELSE s2
        ELSE Sleep(s1)

\* start()
Start(s, in) ==
    LET s1 == Configure(SetStatus(s, "init"), in.opts, in.order)
        s2 == IF s1.exc # "none" THEN s1 ELSE InitListener(s1, in.lfault)
    IN  IF s2.exc # "none" THEN s2 ELSE Run(s2, in)

\* restart()
Restart(s, in) ==
    LET s1 == SetStatus(Publish(s, "notice", "Restarting"), "restarting")
        s2 == CleanupBoth(s1)
    IN  Start(s2, in)

\* failure(err, process, restart); given = an err argument was passed
Failure(s, given, p, restart, in) ==
    LET s1 == SetStatus(s, "error")
        s2 == IF given THEN s1 ELSE ReadError(s1, p)
        s3 == SetLastEnd(SetResult(s2, "failed"))
    IN  IF restart THEN Restart(s3, in)
        ELSE Sleep(Cleanup(s3, p))

\* shutdown()
Shutdown(s) ==
    LET s1 == Publish(s, "notice", "Shutting down")
        s2 == CleanupBoth(s1)
    IN  Publish(SetStatus(s2, "shutdown"), "shutdown_complete", "True")

\* os.kill(self.listener.pid, signal.SIGHUP)
SignalHup(s, sig) ==
    IF s.listener = 0 THEN Raise(s, "AttributeError")
    ELSE LET l == s.listener
             L == s.procs[l]
         IN  IF L.ps \in {"new", "reaped"} THEN Raise(s, "OSError")
             ELSE IF L.ps = "exit" THEN s
             ELSE IF L.phase = "boot"
                  THEN IF sig = "kill"
                       THEN [s EXCEPT !.procs[l] = Exited(@)]
                       ELSE s
             ELSE [s EXCEPT !.procs[l].hup = @ + 1]

\* success(), first part: status, drain worker.data, signal the Listener
SuccessSignal(s, sig) ==
    LET s1 == SetStatus(s, "finalising")
        w == s1.worker
    IN  IF w = 0 THEN Raise(s1, "AttributeError")
        ELSE IF ~s1.procs[w].open_data THEN Raise(s1, "IOError")
        ELSE IF s1.procs[w].data = <<>> THEN Raise(s1, "TypeError")
        ELSE SignalHup([s1 EXCEPT !.local = Head(s1.procs[w].data),
                                  !.procs[w].data = Tail(@)], sig)

\* self.listener.p_data.send(vrps)
SendToListener(s, c) ==
    IF s.procs[s.listener].ps # "run" THEN s
    ELSE IF Len(s.procs[s.listener].data) >= MaxQueue THEN [s EXCEPT !.over = TRUE]
    ELSE [s EXCEPT !.procs[s.listener].data = Append(@, c),
                   !.procs[s.listener].sent = @ \cup {c},
                   !.procs[s.listener].last = c]

\* report(**stats)
StatNames == <<"covered_prefixes_ipv4", "origin_asns_ipv4", "covered_prefixes_ipv6",
               "origin_asns_ipv6", "origin_asns_total">>
RECURSIVE Report(_, _)
Report(s, names) ==
    IF names = <<>> THEN s ELSE Report(Publish(s, Head(names), "stat"), Tail(names))

\* success(), second part: send, report, result, last_end, cleanup, sleep
SuccessSend(s) ==
    LET s1 == Report(SendToListener(s, s.local), StatNames)
        s2 == SetLastEnd(SetResult(s1, "ok"))
    IN  [Sleep(Cleanup(s2, s2.worker)) EXCEPT !.local = 0]

\* on_readable(fd): which branch the comparisons select.  Each comparison calls
\* fileno() on a connection of the current Worker / Listener and raises when
\* there is no such object or the connection is closed.
Route(s, fd) ==
    IF s.worker = 0 THEN "raise"
    ELSE IF ~s.procs[s.worker].open_data THEN "raise"
    ELSE IF fd = <<s.worker, "p_data">> THEN "success"
    ELSE IF ~s.procs[s.worker].open_err THEN "raise"
    ELSE IF fd = <<s.worker, "p_err">> THEN "failure_worker"
    ELSE IF s.listener = 0 THEN "raise"
    ELSE IF ~s.procs[s.listener].open_err THEN "raise"
    ELSE IF fd = <<s.listener, "p_err">> THEN "failure_listener"
    ELSE "ignore"

\* a watched descriptor is readable when its pipe holds a message
Readable(fd) ==
    IF fd[2] = "p_data" THEN procs[fd[1]].kind = "worker" /\ procs[fd[1]].data # <<>>
    ELSE procs[fd[1]].err > 0

\* ------------------------------------------------------------------ actions
Commit(s0, op, fd, route) ==
    LET s == Collect(s0) IN
    /\ ~s.over
    /\ status' = s.status /\ result' = s.result
    /\ last_start' = s.last_start /\ last_end' = s.last_end
    /\ cache_url' = s.cache_url /\ refresh_interval' = s.refresh_interval
    /\ worker' = s.worker /\ listener' = s.listener
    /\ watching' = s.watching /\ timer' = s.timer
    /\ procs' = s.procs
    /\ drained' = s.local
    /\ ev' = [op |-> op, fd |-> fd, exc |-> s.exc, pub |-> s.pub, route |-> route]
    /\ UNCHANGED viewvars

\* on_initialized()
OnInitialized(in) ==
    /\ pc = "idle" /\ status = "None"
    /\ Commit(Start(Cur, in), "on_initialized", NoFd, "none")
    /\ UNCHANGED <<options, pc>>

\* on_timeout(): the one-shot timer fires
OnTimeout(in) ==
    /\ pc = "idle" /\ timer
    /\ Commit(Run([Cur EXCEPT !.timer = FALSE], in), "on_timeout", NoFd, "none")
    /\ UNCHANGED <<options, pc>>

\* what on_readable(fd) asks of the environment depends on where it goes
ReadableInputs(fd) ==
    LET r == Route(Cur, fd)
    IN  IF r = "success" THEN SignalInputs(options)
        ELSE IF r = "failure_listener" THEN StartInputs(options)
        ELSE {NoInput(options)}

\* on_readable(fd)
OnReadable(fd, in) ==
    /\ pc = "idle" /\ fd \in watching /\ Readable(fd)
    /\ LET r == Route(Cur, fd)
           s == CASE r = "success" -> SuccessSignal(Cur, in.sig)
                  [] r = "failure_worker" -> Failure(Cur, FALSE, worker, FALSE, in)
                  [] r = "failure_listener" -> Failure(Cur, FALSE, listener, TRUE, in)
                  [] r = "raise" -> Raise(Cur, "Exception")
                  [] OTHER -> Publish(Cur, "warning", "Unknown file descriptor")
       IN  /\ Commit(s, "on_readable", fd, r)
           /\ pc' = IF r = "success" /\ s.exc = "none" THEN "send" ELSE "idle"
    /\ UNCHANGED options

\* success() resumes after the signal: the send and everything after it
OnReadableSend ==
    /\ pc = "send"
    /\ Commit(SuccessSend(Cur), "success_send", NoFd, "success")
    /\ pc' = "idle"
    /\ UNCHANGED options

\* on_agent_option(key, value): the host changed an option
OnAgentOption(k, v) ==
    /\ pc = "idle" /\ status # "None"
    /\ Commit(Set(Cur, k, v), "on_agent_option", <<0, k>>, "none")
    /\ options' = IF k \in Keys THEN [options EXCEPT ![k] = v] ELSE options
    /\ UNCHANGED pc

\* on_agent_enabled(False): the host disabled the agent
OnAgentDisabled ==
    /\ pc = "idle" /\ status \notin {"None", "shutdown"}
    /\ Commit(Shutdown(Cur), "on_agent_enabled", NoFd, "none")
    /\ UNCHANGED <<options, pc>>

\* ---------------------------------------------------------- child processes
ChildStep(P, name) ==
    /\ procs' = Collect([Cur EXCEPT !.procs = P]).procs
    /\ ev' = [NoEv EXCEPT !.op = name]
    /\ UNCHANGED <<status, result, last_start, last_end, cache_url, refresh_interval,
                   worker, listener, watching, timer, options, pc, drained>>
    /\ UNCHANGED viewvars

Running(p, kind) == procs[p].kind = kind /\ procs[p].ps = "run"

\* RpkiWorker.run(), try block completes: one (stats, vrps) pair on c_data
WorkerSendData(P, w) == [P EXCEPT ![w].data = Append(@, w), ![w].sent_data = @ + 1,
                                  ![w].ps = "exit"]
WorkerSucceed(w) ==
    /\ Running(w, "worker")
    /\ ChildStep(WorkerSendData(procs, w), "worker_run")

\* a Worker that writes its pair and then still reports an error
WorkerSendError_AfterData(P, w) ==
    [P EXCEPT ![w].data = Append(@, w), ![w].sent_data = @ + 1,
              ![w].err = @ + 1, ![w].sent_err = @ + 1, ![w].ps = "exit"]

\* RpkiWorker.run(), except Exception: the error on c_err
WorkerSendError(P, w) == [P EXCEPT ![w].err = @ + 1, ![w].sent_err = @ + 1,
                                   ![w].ps = "exit"]
WorkerFail(w) ==
    /\ Running(w, "worker")
    /\ ChildStep(WorkerSendError(procs, w), "worker_run")

\* a Worker that reports the termination signal as an error
WorkerTerm_SendsError(P, w) == [P EXCEPT ![w].err = @ + 1, ![w].sent_err = @ + 1,
                                         ![w].ps = "exit"]

\* RpkiWorker.run(), except TermException: SIGTERM from outside, nothing sent
WorkerTerm(P, w) == [P EXCEPT ![w].ps = "exit"]
WorkerSigterm(w) ==
    /\ Running(w, "worker")
    /\ ChildStep(WorkerTerm(procs, w), "worker_run")

\* process_vrps(): the served view is rebuilt from the held collection
ProcessVrps(L) == [L EXCEPT !.view = L.vrps]

\* get_vrps() that installs a collection of its own when every poll was empty
GetVrpsPoll_Unsent(L) ==
    LET done == [L EXCEPT !.poll = 0,
                          !.phase = IF @ = "boot" THEN "serve" ELSE @]
    IN  IF L.data # <<>>
        THEN ProcessVrps([done EXCEPT !.vrps = Head(L.data), !.data = Tail(L.data)])
        ELSE IF L.poll = Polls
             THEN ProcessVrps([done EXCEPT !.vrps = MaxListeners + MaxWorkers + 1])
        ELSE [L EXCEPT !.poll = @ + 1]

\* get_vrps() that forgets the held collection when every poll was empty
GetVrpsPoll_Forgets(L) ==
    LET done == [L EXCEPT !.poll = 0,
                          !.phase = IF @ = "boot" THEN "serve" ELSE @]
    IN  IF L.data # <<>>
        THEN ProcessVrps([done EXCEPT !.vrps = Head(L.data), !.data = Tail(L.data)])
        ELSE IF L.poll = Polls THEN ProcessVrps([done EXCEPT !.vrps = 0])
        ELSE [L EXCEPT !.poll = @ + 1]

\* one iteration of the loop of get_vrps(), and what load_config() does with
\* its result; the poll that ends the attempt ends the boot phase too
GetVrpsPoll(L) ==
    LET done == [L EXCEPT !.poll = 0,
                          !.phase = IF @ = "boot" THEN "serve" ELSE @]
    IN  IF L.data # <<>>
        THEN ProcessVrps([done EXCEPT !.vrps = Head(L.data), !.data = Tail(L.data)])
        ELSE IF L.poll = Polls THEN done
        ELSE [L EXCEPT !.poll = @ + 1]

ListenerPoll(l) ==
    /\ Running(l, "listener") /\ procs[l].poll > 0
    /\ ChildStep([procs EXCEPT ![l] = GetVrpsPoll(@)], "listener_poll")

\* the poll finds a collection and process_vrps() raises on it (it does for
\* every collection that is not empty): gunicorn's do_load_config prints the
\* exception and calls sys.exit(1); SystemExit passes RpkiListener.run()'s
\* handlers, so nothing is sent on c_err
ListenerPollRaises(P, l) == [P EXCEPT ![l] = Exited(@)]
ListenerRebuildFails(l) ==
    /\ Running(l, "listener") /\ procs[l].poll > 0 /\ procs[l].data # <<>>
    /\ ChildStep(ListenerPollRaises(procs, l), "listener_poll")

\* a queued reload signal is taken up: load_config() starts polling
ListenerReload(l) ==
    /\ Running(l, "listener") /\ procs[l].phase = "serve"
    /\ procs[l].poll = 0 /\ procs[l].hup > 0
    /\ ChildStep([procs EXCEPT ![l].hup = @ - 1, ![l].poll = 1], "listener_reload")

\* RpkiListener.run(), except Exception: the error on c_err
ListenerSendError(P, l) == [P EXCEPT ![l] = [Exited(@) EXCEPT !.err = @ + 1,
                                                              !.sent_err = @ + 1]]
ListenerFail(l) ==
    /\ Running(l, "listener")
    /\ ChildStep(ListenerSendError(procs, l), "listener_run")

\* RpkiListener.run(), except TermException: SIGTERM from outside
ListenerTerm(P, l) == [P EXCEPT ![l] = Exited(@)]
ListenerSigterm(l) ==
    /\ Running(l, "listener")
    /\ ChildStep(ListenerTerm(procs, l), "listener_run")

OptionKeys == Keys \cup {"other"}
OptionValues(k, intervals) ==
    IF k = "cache_url" THEN UrlValues
    ELSE IF k = "refresh_interval" THEN intervals
    ELSE {Str(<<"u">>)}

\* -------------------------------------------------------- VRPs (vrp.py)
\* Addresses are AddrBits bits wide; a prefix is an address family and the
\* leading bits it fixes (ipaddress.ip_network of the record's prefix string).
AddrBits == 2
Net(afi, bits) == [t |-> "net", afi |-> afi, bits |-> bits]

\* the fields a cache record can carry
Asns == {<<"A", "S", "0">>, <<"A", "S", "1">>, <<"A", "S", "2">>}
Prefixes == {Net("ipv4", <<0>>), Net("ipv4", <<0, 0>>), Net("ipv4", <<0, 1>>),
             Net("ipv6", <<1>>)}
Records == [asn : Asns, prefix : Prefixes, maxLength : {AddrBits}, ta : {"x"}]
RoaLists == UNION {[1..n -> Records] : n \in 0..MaxRoas}

\* VRP(**r): a new object; oid is its identity
VRP(oid, r) == [t |-> "VRP", oid |-> oid, asn |-> r.asn, prefix |-> r.prefix,
                maxLength |-> r.maxLength, ta |-> r.ta]

\* VRP.afi
Afi(v) == v.prefix.afi

\* VRP.key
Key(v) == <<v.asn, v.prefix, v.maxLength, v.ta>>

\* VRP.__hash__: the hash of the key
Hash(v) == Key(v)

\* VRP defines no __eq__: two objects are equal when they are the same object
VrpEq(a, b) == a.oid = b.oid

\* str.lstrip(chars)
RECURSIVE LStrip(_, _)
LStrip(cs, chars) ==
    IF cs # <<>> /\ Head(cs) \in chars THEN LStrip(Tail(cs), chars) ELSE cs

\* VRP.as_number
AsNumber(v) == LStrip(v.asn, {"A", "S"})

\* set(iterable): an element is added unless the set already holds one with
\* the same hash that compares equal to it
RECURSIVE PySet(_, _)
PySet(xs, acc) ==
    IF xs = <<>> THEN acc
    ELSE LET x == Head(xs)
             dup == \E y \in acc : Hash(y) = Hash(x) /\ VrpEq(y, x)
         IN  PySet(Tail(xs), IF dup THEN acc ELSE acc \cup {x})

\* VRPSet.__init__
VRPSet(xs) == [t |-> "VRPSet", elements |-> PySet(xs, {})]

\* RpkiWorker.fetch(): VRPSet([VRP(**r) for r in data["roas"]])
Fetch(rs) == VRPSet([i \in 1..Len(rs) |-> VRP(i, rs[i])])

\* aggregate_prefixes(): drop every prefix another one contains, merge two
\* halves into their parent, until neither applies
Contains(p, q) == /\ p.afi = q.afi /\ Len(p.bits) <= Len(q.bits)
                  /\ SubSeq(q.bits, 1, Len(p.bits)) = p.bits
Parent(p) == Net(p.afi, SubSeq(p.bits, 1, Len(p.bits) - 1))
Halves(p, q) == /\ p # q /\ p.afi = q.afi /\ Len(p.bits) = Len(q.bits)
                /\ Len(p.bits) > 0 /\ Parent(p) = Parent(q)
DropContained(S) == {p \in S : ~\E q \in S : q # p /\ Contains(q, p)}

RECURSIVE AggregatePrefixes(_)
AggregatePrefixes(S) ==
    LET T == DropContained(S)
    IN  IF \E p, q \in T : Halves(p, q)
        THEN LET p == CHOOSE x \in T : \E y \in T : Halves(x, y)
             IN  AggregatePrefixes({x \in T : Parent(x) # Parent(p) \/ Len(x.bits) # Len(p.bits)}
                                       \cup {Parent(p)})
        ELSE T

\* covered() that does not select the address family
Covered_AnyAfi(vs, afi) == AggregatePrefixes({v.prefix : v \in vs.elements})

\* VRPSet.covered(afi)
Covered(vs, afi) == AggregatePrefixes({v.prefix : v \in {x \in vs.elements : Afi(x) = afi}})

\* VRPSet.origins(afi)
Origins(vs, afi) ==
    {AsNumber(v) : v \in {x \in vs.elements : Afi(x) = afi /\ x.asn # <<"A", "S", "0">>}}

\* VRPSet.prefixes_by_origin(origin, afi)
PrefixesByOrigin(vs, origin, afi) ==
    [t |-> "VRPSet", elements |-> {v \in vs.elements : AsNumber(v) = origin /\ Afi(v) = afi}]

\* ------------------------------------------- the HTTP server (listener.py)
Afis == <<"ipv4", "ipv6">>
NoCollection == [t |-> "none", elements |-> {}]
NoLines == [o \in {} |-> <<>>]

\* RpkiHttpServer.__init__: vrps, origins, covered, for_origin
NewServer == [held |-> NoCollection, origins |-> {},
              covered |-> [a \in {"ipv4", "ipv6"} |-> <<>>],
              for_origin |-> [a \in {"ipv4", "ipv6"} |-> NoLines],
              exc |-> "none"]

\* the server's fields as one record, threaded through process_vrps()
CurServer == [held |-> held, origins |-> origins, covered |-> covered,
              for_origin |-> for_origin, exc |-> "none"]

\* the value of an expression, or the exception it raised
Ok(v) == [exc |-> "none", val |-> v]
Exc(e) == [exc |-> e, val |-> <<>>]

\* "seq {seq} permit {prefix} le {maxLength}".format(seq=seq, **entry):
\* ** needs a mapping with the keys prefix and maxLength
Line(seq, prefix, le) == [seq |-> seq, prefix |-> prefix, le |-> le]
Format(seq, entry) ==
    IF entry.t = "dict" THEN Ok(Line(seq, entry.prefix, entry.maxLength))
    ELSE Exc("TypeError")

\* enumerate(a set): its elements in some order, numbered from 0
Enumerate(S) == CHOOSE f \in [1..Cardinality(S) -> S] : \A x \in S : \E i \in DOMAIN f : f[i] = x

\* [fmt.format(seq=seq, **entry) for seq, entry in enumerate(entries)]
Lines(entries) ==
    LET es == Enumerate(entries)
    IN  IF \E i \in DOMAIN es : Format(i - 1, es[i]).exc # "none" THEN Exc("TypeError")
        ELSE Ok([i \in DOMAIN es |-> Format(i - 1, es[i]).val])

\* the methods a VRPSet has
VRPSetMethods == {"covered", "origins", "prefixes_by_origin"}

\* self.vrps.for_origin(asn, afi)
CallForOrigin(vs, asn, afi) ==
    IF "for_origin" \in VRPSetMethods THEN Ok(PrefixesByOrigin(vs, asn, afi))
    ELSE Exc("AttributeError")

\* the list built for one origin
OriginLines(vs, o, afi) ==
    LET c == CallForOrigin(vs, o, afi)
    IN  IF c.exc # "none" THEN c ELSE Lines(c.val.elements)

\* the loop over the origins of one address family: the first exception ends it
ForOriginLines(vs, org, afi) ==
    IF \E o \in org : OriginLines(vs, o, afi).exc # "none"
    THEN Exc(OriginLines(vs, CHOOSE o \in org : OriginLines(vs, o, afi).exc # "none", afi).exc)
    ELSE Ok([o \in org |-> OriginLines(vs, o, afi).val])

\* one iteration of the loop of process_vrps() over the address families
ProcessAfi(sv, afi) ==
    LET cov == Lines(Covered(sv.held, afi))
    IN  IF cov.exc # "none" THEN [sv EXCEPT !.exc = cov.exc]
        ELSE LET sv1 == [sv EXCEPT !.covered[afi] = cov.val]
                 org == Origins(sv.held, afi)
                 sv2 == [sv1 EXCEPT !.for_origin[afi] = NoLines]
                 fo == ForOriginLines(sv.held, org, afi)
             IN  IF fo.exc # "none" THEN [sv2 EXCEPT !.exc = fo.exc]
                 ELSE [sv2 EXCEPT !.for_origin[afi] = fo.val, !.origins = @ \cup org]

\* process_vrps(); the first exception ends it
RECURSIVE ProcessAfis(_, _)
ProcessAfis(sv, afis) ==
    IF afis = <<>> \/ sv.exc # "none" THEN sv
    ELSE ProcessAfis(ProcessAfi(sv, Head(afis)), Tail(afis))

RebuildView(sv) == ProcessAfis([sv EXCEPT !.origins = {}], Afis)

\* load_config() when get_vrps() received the collection vs
LoadConfig(sv, vs) == RebuildView([sv EXCEPT !.held = vs])

\* requests a client can make
RequestAfis == {"ipv4", "ipv6", "ipv5"}
RequestOrigins == {<<"0">>, <<"1">>, <<"2">>, <<"9">>}
NoReply == [route |-> "none", afi |-> "none", origin |-> <<>>, code |-> 0, body |-> <<>>]
NotFound == 404
Found == 200

\* the state of the view variables before anything was fetched or pulled
ViewInit ==
    /\ roas = <<>> /\ fetched = NoCollection
    /\ held = NewServer.held /\ origins = NewServer.origins
    /\ covered = NewServer.covered /\ for_origin = NewServer.for_origin
    /\ server = "up" /\ reply = NoReply

\* RpkiWorker.fetch() on a cache response whose "roas" array is rs; one
\* collection at a time is on its way to a server that is there to pull it
FetchRoas(rs) ==
    /\ fetched = NoCollection /\ server = "up"
    /\ roas' = rs /\ fetched' = Fetch(rs)
    /\ UNCHANGED <<held, origins, covered, for_origin, server, reply>>
    /\ UNCHANGED agentvars

\* the collection travels to the server: get_vrps() receives it and
\* load_config() calls process_vrps(); an exception there ends the process
\* (gunicorn's do_load_config prints it and calls sys.exit(1))
Pull ==
    /\ fetched # NoCollection /\ server = "up"
    /\ LET sv == LoadConfig(CurServer, fetched)
       IN  /\ held' = sv.held /\ origins' = sv.origins
           /\ covered' = sv.covered /\ for_origin' = sv.for_origin
           /\ server' = IF sv.exc = "none" THEN "up" ELSE "exited"
    /\ roas' = <<>> /\ fetched' = NoCollection
    /\ UNCHANGED reply
    /\ UNCHANGED agentvars

\* a request gets no answer from a server that has exited
Answer(route, afi, origin, code, body) ==
    /\ reply' = IF server = "up"
                THEN [route |-> route, afi |-> afi, origin |-> origin,
                      code |-> code, body |-> body]
                ELSE [route |-> route, afi |-> afi, origin |-> origin,
                      code |-> 0, body |-> <<>>]
    /\ UNCHANGED <<roas, fetched, held, origins, covered, for_origin, server>>
    /\ UNCHANGED agentvars

\* GET /prefix-lists/<afi>/covered
GetCovered(afi) ==
    IF afi \in DOMAIN covered
    THEN Answer("covered", afi, <<>>, Found, covered[afi])
    ELSE Answer("covered", afi, <<>>, NotFound, <<>>)

\* GET /prefix-lists/<afi>/origin/<origin>
GetForOrigin(afi, origin) ==
    IF afi \in DOMAIN for_origin /\ origin \in DOMAIN for_origin[afi]
    THEN Answer("for_origin", afi, origin, Found, for_origin[afi][origin])
    ELSE Answer("for_origin", afi, origin, NotFound, <<>>)

\* GET /as-paths/<origin>
GetAsPath(origin) ==
    IF origin \in origins
    THEN Answer("as_path", "none", origin, Found, <<"permit", origin>>)
    ELSE Answer("as_path", "none", origin, NotFound, <<>>)

\* ---------------------------------------------------------- specifications
\* the state after RpkiAgent.__init__, with the options the host holds
InitWith(intervals) ==
    /\ status = "None" /\ result = "None"
    /\ last_start = "None" /\ last_end = "None"
    /\ cache_url = None /\ refresh_interval = DefaultRefresh
    /\ worker = 0 /\ listener = 0
    /\ watching = {}
    /\ timer = FALSE
    /\ procs = [i \in ProcIds |-> NoProc]
    /\ \E u \in UrlValues : \E i \in intervals :
          options = [cache_url |-> u, refresh_interval |-> i]
    /\ pc = "idle" /\ drained = 0
    /\ ev = NoEv
    /\ ViewInit

\* Spec: the Supervisor with its children.
Init == InitWith(FewIntervalValues)

Next ==
    \/ \E in \in StartInputs(options) : OnInitialized(in)
    \/ \E in \in RunInputs(options) : OnTimeout(in)
    \/ \E fd \in watching : \E in \in ReadableInputs(fd) : OnReadable(fd, in)
    \/ OnReadableSend
    \/ \E v \in UrlValues : OnAgentOption("cache_url", v)
    \/ OnAgentDisabled
    \/ \E w \in WorkerIds : WorkerSucceed(w)
    \/ \E w \in WorkerIds : WorkerFail(w)
    \/ \E w \in WorkerIds : WorkerSigterm(w)
    \/ \E l \in ListenerIds : ListenerPoll(l)
    \/ \E l \in ListenerIds : ListenerRebuildFails(l)
    \/ \E l \in ListenerIds : ListenerReload(l)
    \/ \E l \in ListenerIds : ListenerFail(l)
    \/ \E l \in ListenerIds : ListenerSigterm(l)

Spec == Init /\ [][Next]_vars

\* SpecConf: the configuration path alone, over every interval value.
InitConf == InitWith(IntervalValues)

NextConf ==
    \/ \E in \in StartInputs(options) : OnInitialized(in)
    \/ \E k \in OptionKeys : \E v \in OptionValues(k, IntervalValues) : OnAgentOption(k, v)

SpecConf == InitConf /\ [][NextConf]_vars

\* SpecView: what fetch() builds from a cache response, what the HTTP server
\* makes of the collections it pulls, and what it answers.
InitView == InitWith({Str(<<>>)}) /\ options.cache_url = Str(<<>>)

NextView ==
    \/ \E rs \in RoaLists : FetchRoas(rs)
    \/ Pull
    \/ \E afi \in RequestAfis : GetCovered(afi)
    \/ \E afi \in RequestAfis : \E o \in RequestOrigins : GetForOrigin(afi, o)
    \/ \E o \in RequestOrigins : GetAsPath(o)

SpecView == InitView /\ [][NextView]_vars

\* ------------------------------------------------------------------ claims
LiveWorkers == {w \in WorkerIds : procs[w].kind = "worker" /\ procs[w].ps = "run"}
LiveListeners == {l \in ListenerIds : procs[l].kind = "listener" /\ procs[l].ps = "run"}

\* C1: in every reachable state at most one Worker process is live: run()
\* never starts a Worker while a Worker started earlier is still running.
C1_AtMostOneLiveWorker == Cardinality(LiveWorkers) <= 1

\* the statuses a handler published, in order
RECURSIVE Statuses(_)
Statuses(pub) ==
    IF pub = <<>> THEN <<>>
    ELSE IF Head(pub)[1] = "status" THEN <<Head(pub)[2]>> \o Statuses(Tail(pub))
    ELSE Statuses(Tail(pub))

\* the statuses a, b, c appear in this order (not necessarily adjacent)
InOrder(seq, a, b, c) ==
    \E i, j, k \in 1..Len(seq) : i < j /\ j < k /\ seq[i] = a /\ seq[j] = b /\ seq[k] = c

\* the last handler was on_readable for the error channel of a Listener
ListenerErrorHandled ==
    ev.op = "on_readable" /\ ev.fd[1] \in ListenerIds /\ ev.fd[2] = "p_err"

\* C2: whenever a Listener's error channel became readable, on_readable took
\* the failure(restart=True) branch: status went through error, cleanup, init,
\* result is failed, the old Listener is no longer running and exactly one
\* Listener is live afterwards.
C2_ListenerErrorRestarts ==
    ListenerErrorHandled =>
        /\ ev.route = "failure_listener"
        /\ InOrder(Statuses(ev.pub), "error", "cleanup", "init")
        /\ result = "failed"
        /\ Cardinality(LiveListeners) = 1
        /\ listener \in LiveListeners /\ listener # ev.fd[1]

\* the Listener processes that hold a collection
Holding == {l \in LiveListeners : procs[l].vrps # 0}

\* a step that puts a collection on a Listener's inbound channel
SendsTo(l) == procs'[l].kind = "listener" /\ procs'[l].last # 0
              /\ (procs[l].kind # "listener" \/ Len(procs'[l].data) > Len(procs[l].data)
                  \/ procs'[l].last # procs[l].last \/ procs'[l].sent # procs[l].sent)

\* C3: in every state the collection a Listener holds is absent or one of the
\* collections the Supervisor sent on its inbound channel; and every step
\* that sends on that channel is the second half of success(), taken after
\* on_readable found the current Worker's data channel readable and drained
\* the pair from it (the collection sent is the one drained).
C3_OnlyForwarded ==
    /\ [](\A l \in ListenerIds : procs[l].vrps = 0 \/ procs[l].vrps \in procs[l].sent)
    /\ [][(\E l \in ListenerIds : SendsTo(l)) =>
              /\ pc = "send" /\ drained # 0
              /\ ev'.op = "success_send" /\ ev'.route = "success"
              /\ \A l \in ListenerIds : SendsTo(l) =>
                     l = listener /\ procs'[l].last = drained]_vars

\* a Listener holds a collection that the Supervisor forwarded in success()
C3_Witness == \E l \in Holding : procs[l].vrps \in procs[l].sent /\ procs[l].view = procs[l].vrps

\* a Listener that has taken up and finished every reload signalled so far,
\* while the Supervisor is not in the middle of success()
Settled(l) == /\ pc = "idle" /\ procs[l].phase = "serve"
              /\ procs[l].hup = 0 /\ procs[l].poll = 0

\* C4: the Listener never ends up with a stale collection: once it has finished
\* handling every reload signalled so far it holds the most recently forwarded
\* collection, and whenever it installs a collection, that collection is the
\* most recently forwarded one.
C4_NeverStale ==
    /\ [](\A l \in LiveListeners : Settled(l) => procs[l].vrps = procs[l].last)
    /\ [][\A l \in ListenerIds :
              (l \in LiveListeners /\ l \in LiveListeners' /\ procs'[l].vrps # procs[l].vrps)
                  => procs'[l].vrps = procs'[l].last]_vars

\* Worker objects whose process has been started and not yet reaped
Invoked == {w \in WorkerIds : procs[w].kind = "worker" /\ procs[w].ps \in {"run", "exit"}}

\* C5: a Worker invocation sends at most one message over its two channels,
\* and only as its last act: never both a data pair and an error, never two of
\* either; what its pipes hold is what it sent.
C5_OneMessage ==
    /\ \A w \in Invoked :
          /\ procs[w].sent_data + procs[w].sent_err <= 1
          /\ Len(procs[w].data) <= procs[w].sent_data
          /\ procs[w].err <= procs[w].sent_err
          /\ procs[w].ps = "run" => procs[w].sent_data + procs[w].sent_err = 0
    /\ \A w \in WorkerIds : Len(procs[w].data) + procs[w].err <= 1

\* a Worker failed: one error on the error channel, nothing on the data channel
C5_Witness ==
    \E w \in Invoked : /\ procs[w].ps = "exit" /\ procs[w].sent_err = 1
                       /\ procs[w].sent_data = 0 /\ procs[w].data = <<>>
                       /\ procs[w].err = 1

\* the last handler was on_readable for the error channel of a Worker
WorkerErrorHandled ==
    ev.op = "on_readable" /\ ev.fd[1] \in WorkerIds /\ ev.fd[2] = "p_err"

\* the handler that just ran hit no exception while creating a child
NoSpawnFault == ev.exc = "none" /\ \A i \in 1..Len(ev.pub) : ev.pub[i] # <<"status", "error">>

\* C6: when a Worker's error channel became readable the Supervisor took the
\* failure() branch without restart: result failed, last_end set, that Worker
\* cleaned up (its channels unwatched, its process gone), the Listener left
\* alone, status sleeping with the timer armed; and a timer firing with a
\* cache_url configured spawns a fresh Worker.
C6_WorkerErrorSleeps ==
    /\ WorkerErrorHandled =>
          /\ ev.route = "failure_worker"
          /\ Statuses(ev.pub) = <<"error", "cleanup", "sleeping">>
          /\ result = "failed" /\ last_end = Now
          /\ \A c \in watching : c[1] # ev.fd[1]
          /\ procs[ev.fd[1]].ps \notin {"run", "exit"}
          /\ status = "sleeping" /\ timer
    /\ (ev.op = "on_timeout" /\ cache_url # None /\ NoSpawnFault) =>
          /\ status = "running" /\ worker \in LiveWorkers
          /\ {<<worker, "p_data">>, <<worker, "p_err">>} \subseteq watching

\* C7: shutdown is terminal: when shutdown() has run, the current Worker and
\* Listener are no longer alive and status is shutdown; from then on status
\* stays shutdown and no Worker or Listener process is started.
C7_ShutdownTerminal ==
    /\ [](ev.op = "on_agent_enabled" =>
              /\ status = "shutdown"
              /\ worker \notin LiveWorkers /\ listener \notin LiveListeners)
    /\ [][status = "shutdown" =>
              /\ status' = "shutdown"
              /\ LiveWorkers' \subseteq LiveWorkers
              /\ LiveListeners' \subseteq LiveListeners]_vars

\* the handler that just ran executed run()
RunExecuted == \E i \in 1..Len(ev.pub) : ev.pub[i] = <<"status", "running">>

WorkerConns == {c \in watching : c[1] \in WorkerIds}

\* C8: every handler that executes run() while cache_url is None ends with
\* status sleeping (the status published right after running) and the timer
\* armed, starts no Worker, creates no Worker object, watches no further
\* Worker channel and leaves last_start as it was.
C8_NoUrlSleeps ==
    [][(RunExecuted' /\ cache_url' = None) =>
          /\ status' = "sleeping" /\ timer'
          /\ \E i \in 1..Len(ev'.pub) - 1 :
                /\ ev'.pub[i] = <<"status", "running">>
                /\ ev'.pub[i + 1] = <<"status", "sleeping">>
                /\ i + 1 = Len(ev'.pub)
          /\ LiveWorkers' \subseteq LiveWorkers
          /\ worker' = worker
          /\ WorkerConns' \subseteq WorkerConns
          /\ last_start' = last_start]_vars

\* the timer fired with no cache_url: sleeping again, timer armed, no Worker
C8_Witness ==
    /\ ev.op = "on_timeout" /\ cache_url = None
    /\ status = "sleeping" /\ timer /\ LiveWorkers = {} /\ last_start = "None"

\* option values the setter is documented to reject
Invalid(v) == Truthy(v) /\ ~(PyInt(v) >= 10 /\ PyInt(v) <= 86399)

\* C9: when start() ran its configure step with an invalid refresh_interval
\* in the host's options (and creating the Listener did not itself fail),
\* refresh_interval kept its prior value, the other option was applied, the
\* Listener was spawned and status reached running.
C9_InvalidIntervalSkipped ==
    (ev.op = "on_initialized" /\ Invalid(options.refresh_interval)
        /\ ev.exc \in {"none", "ValueError"}) =>
        /\ refresh_interval = DefaultRefresh
        /\ cache_url = (IF Truthy(options.cache_url) THEN options.cache_url ELSE None)
        /\ listener \in LiveListeners
        /\ RunExecuted

\* the boundary values named by the documentation, as the host delivers them
Nine == Str(<<"9">>)
Ten == Str(<<"1", "0">>)
Top == Str(<<"8", "6", "3", "9", "9">>)
OverTop == Str(<<"8", "6", "4", "0", "0">>)

\* the host has just assigned value v to the option refresh_interval
Assigned(v) == ev'.op = "on_agent_option" /\ ev'.fd = <<0, "refresh_interval">>
               /\ options'.refresh_interval = v

Accepted(i) == ev'.exc = "none" /\ refresh_interval' = i
Rejected == ev'.exc = "ValueError" /\ refresh_interval' = refresh_interval

C11_DistinctKeys ==
    fetched # NoCollection =>
        /\ Cardinality(fetched.elements)
              = Cardinality({<<roas[i].asn, roas[i].prefix, roas[i].maxLength, roas[i].ta>> :
                                i \in DOMAIN roas})
        /\ \A a, b \in fetched.elements : Key(a) = Key(b) => a = b

\* p lies inside q, and is not q
StrictlyInside(p, q) == p # q /\ Contains(q, p)

\* the prefixes of the VRPs of one address family
PrefixesOf(vs, afi) == {v.prefix : v \in {x \in vs.elements : x.prefix.afi = afi}}

\* C12: for each address family, covered(afi) of a collection covers every
\* prefix of that family in the collection, holds no prefix strictly inside
\* another of its prefixes, and holds no prefix of the other family.
C12_MinimalCover ==
    fetched # NoCollection =>
        \A afi \in {"ipv4", "ipv6"} :
            LET out == Covered(fetched, afi)
            IN  /\ \A p \in PrefixesOf(fetched, afi) : \E q \in out : Contains(q, p)
                /\ \A p, q \in out : ~StrictlyInside(p, q)
                /\ \A q \in out : q.afi = afi

\* a collection with one ipv4 prefix inside another: only the outer one is left
C12_Witness ==
    /\ fetched # NoCollection
    /\ \E p, q \in PrefixesOf(fetched, "ipv4") :
          StrictlyInside(p, q) /\ Covered(fetched, "ipv4") = {q}
    /\ Covered(fetched, "ipv6") = {}

\* the prefixes a list of rule lines names
LinePrefixes(ls) == {ls[i].prefix : i \in DOMAIN ls}

\* rule lines numbered 0..k-1, one per prefix of the set ps
NumberedFor(ls, ps) ==
    /\ Len(ls) = Cardinality(ps) /\ LinePrefixes(ls) = ps
    /\ \A i \in DOMAIN ls : ls[i].seq = i - 1

\* the keys of the VRPs of a collection
KeysOf(vs) == {Key(v) : v \in vs.elements}

\* C13: once the server has pulled a collection it serves, for each address
\* family, one rule line per element of covered(afi), numbered 0..k-1, each
\* with a maxLength of a VRP under its prefix; GET /prefix-lists/{afi}/covered
\* answers with those lines; and a collection of two ipv4 VRPs for the two
\* halves of a prefix gives two lines.
C13_CoveredLines ==
    held # NoCollection =>
        /\ server = "up"
        /\ \A afi \in {"ipv4", "ipv6"} :
              /\ NumberedFor(covered[afi], Covered(held, afi))
              /\ \A i \in DOMAIN covered[afi] :
                    \E v \in held.elements : /\ Contains(covered[afi][i].prefix, v.prefix)
                                             /\ covered[afi][i].le = v.maxLength
        /\ (reply.route = "covered" /\ reply.afi \in {"ipv4", "ipv6"}) =>
              reply.code = Found /\ reply.body = covered[reply.afi]
        /\ (\E a, b \in held.elements :
              /\ held.elements = {a, b} /\ a.prefix = Net("ipv4", <<0, 0>>)
              /\ b.prefix = Net("ipv4", <<0, 1>>)) => Len(covered["ipv4"]) = 2

\* origin is the bare AS number of a VRP of the collection that is not AS0
HasValidVrp(vs, origin) ==
    \E v \in vs.elements : v.asn # <<"A", "S", "0">> /\ v.asn = <<"A", "S">> \o origin

\* C14: GET /as-paths/{origin} is answered with the permit line exactly when
\* the origin has a VRP other than AS0 in the collection the server pulled
\* last, and with 404 otherwise (always 404 before the first collection).
C14_AsPathPermit ==
    reply.route = "as_path" =>
        IF HasValidVrp(held, reply.origin)
        THEN reply.code = Found /\ reply.body = <<"permit", reply.origin>>
        ELSE reply.code = NotFound

\* C15: once the server has pulled a collection, GET
\* /prefix-lists/{afi}/origin/{origin} is answered, for an origin in
\* origins(afi), with rule lines numbered from 0 for exactly the prefixes of
\* prefixes_by_origin(origin, afi), and with 404 for an unknown afi or origin.
C15_OriginLines ==
    (held # NoCollection /\ reply.route = "for_origin") =>
        IF reply.afi \in {"ipv4", "ipv6"} /\ reply.origin \in Origins(held, reply.afi)
        THEN /\ reply.code = Found
             /\ NumberedFor(reply.body,
                            {v.prefix : v \in PrefixesByOrigin(held, reply.origin, reply.afi).elements})
        ELSE reply.code = NotFound

\* C16: after any sequence of pulls the served view is the view of the
\* collection pulled last: its origin set, its covered prefixes and its
\* per-origin lists are those of that collection and of no earlier one.
C16_ViewOfLastPull ==
    held # NoCollection =>
        /\ server = "up"
        /\ origins = Origins(held, "ipv4") \cup Origins(held, "ipv6")
        /\ \A afi \in {"ipv4", "ipv6"} :
              /\ LinePrefixes(covered[afi]) = Covered(held, afi)
              /\ DOMAIN for_origin[afi] = Origins(held, afi)
              /\ \A o \in DOMAIN for_origin[afi] :
                    LinePrefixes(for_origin[afi][o])
                        = {v.prefix : v \in PrefixesByOrigin(held, o, afi).elements}

\* the watched connections of child p
WatchedConns(p) == {c \in watching : c[1] = p}

\* C17: however the current Worker exits, the readiness wait for it wakes: a
\* Supervisor in status running whose Worker has exited has a watched channel
\* of that Worker readable, and on_readable for it runs success() or failure()
\* for that Worker, so the Supervisor leaves running.
C17_ExitWakes ==
    \A w \in WorkerIds :
        (status = "running" /\ pc = "idle" /\ worker = w /\ procs[w].kind = "worker"
            /\ procs[w].ps = "exit")
        => \E c \in WatchedConns(w) :
              Readable(c) /\ Route(Cur, c) \in {"success", "failure_worker"}

\* on_readable has just taken the success() branch
SuccessEntered == ev.op = "on_readable" /\ ev.route = "success"

\* child p is cleaned up: not alive, none of its channels watched, both closed
CleanedUp(p) ==
    /\ procs[p].ps \notin {"run", "exit"}
    /\ WatchedConns(p) = {}
    /\ ~procs[p].open_data /\ ~procs[p].open_err

\* C18: when the current Worker's data channel became readable, success() runs
\* to completion: it gets past the reload signal without an exception, and at
\* its end status went cleanup then sleeping, the statistics are reported,
\* result is ok, last_end is set, the Worker is cleaned up and the timer is
\* armed; the Supervisor is never left in finalising outside success().
C18_SuccessCompletes ==
    /\ SuccessEntered => ev.exc = "none" /\ pc = "send" /\ status = "finalising"
    /\ ev.op = "success_send" =>
          /\ Statuses(ev.pub) = <<"cleanup", "sleeping">>
          /\ \A i \in 1..Len(StatNames) : \E j \in 1..Len(ev.pub) :
                ev.pub[j] = <<StatNames[i], "stat">>
          /\ status = "sleeping" /\ result = "ok" /\ last_end = Now /\ timer
          /\ worker # 0 /\ CleanedUp(worker)
    /\ (status = "finalising" /\ pc = "idle") => timer

\* child p was given to cleanup() by the handler that has just run: both
\* children in shutdown(), the current Worker at the end of success() and in
\* failure(process=self.worker)
CleanupRan(p) ==
    /\ p # 0
    /\ \/ ev'.op = "on_agent_enabled" /\ p \in {worker, listener}
       \/ ev'.op = "success_send" /\ p = worker
       \/ ev'.op = "on_readable" /\ ev'.route = "failure_worker" /\ p = worker

\* C19: after cleanup(child) has returned, no channel of that child is in the
\* watched set, every channel of it that was watched is closed, the child is
\* not alive, and the handler that called cleanup did not raise (cleanup of
\* None, of a dead child or of a child cleaned before completes).
C19_CleanupUnwatches ==
    [][\A p \in ProcIds : CleanupRan(p) =>
          /\ ev'.exc = "none"
          /\ \A c \in watching' : c[1] # p
          /\ \A c \in WatchedConns(p) :
                /\ c[2] = "p_data" => ~procs'[p].open_data
                /\ c[2] = "p_err" => ~procs'[p].open_err
          /\ procs'[p].ps \notin {"run", "exit"}]_vars

\* creating, watching or starting the Worker threw inside the run() executed by
\* the last handler: running is directly followed by error
SpawnThrew ==
    \E i \in 1..(Len(Statuses(ev.pub)) - 1) :
        Statuses(ev.pub)[i] = "running" /\ Statuses(ev.pub)[i + 1] = "error"

\* C20: when spawning the Worker threw inside run(), it is handled as a
\* Worker failure: status went error, cleanup, sleeping, result is failed,
\* last_end is set, the timer is armed and no channel of the failed Worker
\* stays in the watched set.
C20_SpawnFailureHandled ==
    SpawnThrew =>
        /\ InOrder(Statuses(ev.pub), "error", "cleanup", "sleeping")
        /\ status = "sleeping" /\ result = "failed" /\ last_end = Now /\ timer
        /\ ev.exc = "none"
        /\ worker # 0 => WatchedConns(worker) = {}

\* child p exits on a termination signal in this step: sent from outside, or
\* by terminate() in the Supervisor's cleanup() while p was running
SignalExit(p) ==
    \/ p \in WorkerIds /\ WorkerSigterm(p)
    \/ p \in ListenerIds /\ ListenerSigterm(p)
    \/ procs[p].ps = "run" /\ procs'[p].ps = "reaped"

\* the handler that has just run set result = failed
SetFailed == \E i \in 1..Len(ev.pub) : ev.pub[i] = <<"result", "failed">>

\* C21: a child that exits on a termination signal puts nothing on its error
\* channel, and the Supervisor sets result = failed only for an error message
\* a child sent (on_readable of an error channel holding one) or for a spawn
\* that threw inside run(), never for a child that exited on a signal.
C21_SignalExitClean ==
    [][/\ \A p \in ProcIds : SignalExit(p) =>
             /\ procs'[p].err <= procs[p].err
             /\ procs'[p].sent_err <= procs[p].sent_err
             /\ ~SetFailed' \/ ev'.op = "on_readable"
       /\ SetFailed' =>
             \/ /\ ev'.op = "on_readable" /\ ev'.fd[2] = "p_err"
                /\ procs[ev'.fd[1]].err > 0
             \/ SpawnThrew']_vars

\* a Worker and a Listener have exited on a signal, neither sent anything, and
\* no failure was recorded
C21_Witness ==
    /\ \E w \in WorkerIds : /\ procs[w].kind = "worker" /\ procs[w].ps = "exit"
                            /\ procs[w].sent_data = 0 /\ procs[w].sent_err = 0
    /\ \E l \in ListenerIds : /\ procs[l].kind = "listener" /\ procs[l].ps = "exit"
                              /\ procs[l].sent_err = 0 /\ procs[l].err = 0
    /\ result # "failed"

\* Listener l has made one poll of get_vrps() in this step
Polled(l) ==
    /\ ev'.op = "listener_poll" /\ procs[l].kind = "listener"
    /\ procs[l].ps = "run" /\ procs'[l] # procs[l]

\* C22: a poll that finds the inbound channel empty leaves the held collection
\* and the served view unchanged, and the third empty poll ends the attempt;
\* an attempt never makes more than 3 polls, and the poll that receives takes
\* exactly one collection and ends the attempt.
C22_EmptyPollsKeepView ==
    /\ [](\A l \in ListenerIds : procs[l].poll \in 0..Polls)
    /\ [][\A l \in ListenerIds : Polled(l) =>
             /\ procs[l].data = <<>> =>
                   /\ procs'[l].vrps = procs[l].vrps
                   /\ procs'[l].view = procs[l].view
                   /\ procs'[l].ps = "run"
                   /\ procs'[l].poll = IF procs[l].poll = Polls THEN 0
                                       ELSE procs[l].poll + 1
             /\ (procs[l].data # <<>> /\ procs'[l].ps = "run") =>
                   /\ procs'[l].data = Tail(procs[l].data)
                   /\ procs'[l].vrps = Head(procs[l].data)
                   /\ procs'[l].poll = 0]_vars

\* a Listener to which nothing was ever sent has ended its first attempt
\* empty-handed and serves with no collection
C22_Witness ==
    /\ ev.op = "listener_poll"
    /\ \E l \in ListenerIds :
          /\ procs[l].kind = "listener" /\ procs[l].ps = "run"
          /\ procs[l].phase = "serve" /\ procs[l].poll = 0
          /\ procs[l].sent = {} /\ procs[l].vrps = 0 /\ procs[l].view = 0

\* C23: every readiness notification for a watched channel is dispatched by
\* on_readable without raising, to the handler of its source: a Worker data
\* channel to success(), a Worker error channel to failure(worker), a Listener
\* error channel to failure(listener, restart); a descriptor is ignored only
\* when it is none of the current channels.
C23_DispatchNeverRaises ==
    ev.op = "on_readable" =>
        /\ ev.route # "raise"
        /\ ev.route \in {"success", "ignore"} <=> ev.fd[2] = "p_data"
        /\ ev.route = "failure_worker" => ev.fd[1] \in WorkerIds /\ ev.fd[2] = "p_err"
        /\ ev.route = "failure_listener" => ev.fd[1] \in ListenerIds /\ ev.fd[2] = "p_err"

\* C24: whenever status is sleeping no Worker process is alive, no Worker
\* channel is in the watched set and the refresh timer is armed.
C24_SleepingQuiet ==
    status = "sleeping" =>
        /\ LiveWorkers = {}
        /\ \A c \in watching : c[1] \notin WorkerIds
        /\ timer

\* success() drains the Worker's data channel in this step
Drains ==
    /\ ev'.op = "on_readable" /\ ev'.route = "success"
    /\ worker # 0 /\ procs[worker].data # <<>>
    /\ procs'[worker].data = Tail(procs[worker].data)

\* C25: every collection success() drains from the Worker's data channel is
\* sent exactly once on the inbound channel of the Listener live at that
\* moment: a drain is followed by the send (never dropped), the send goes to
\* the current Listener while it is running and puts the drained collection on
\* its channel once.
C25_DrainedSentOnce ==
    [][/\ Drains => pc' = "send" /\ drained' = Head(procs[worker].data)
       /\ (pc = "send" /\ ev'.op = "success_send") =>
             /\ listener # 0 /\ procs[listener].ps = "run"
             /\ procs'[listener].data = Append(procs[listener].data, drained)]_vars

====
